---- MODULE Spec2Model ----
(***************************************************************************)
(* Ricart-Agrawala mutual exclusion with Lamport clocks and a heartbeat    *)
(* failure detector, as implemented by class Peer in peer.py.              *)
(*                                                                         *)
(* Peers are numbered 1..4 for PeerA, PeerB, PeerC, PeerD: the order of    *)
(* the numbers is the lexicographic order of the names, which is what the  *)
(* tuple comparison of handle_request uses to break timestamp ties.        *)
(***************************************************************************)
EXTENDS Integers, Sequences, FiniteSets, TLC

\* ---- bounds of the model ------------------------------------------------
\* number of request_access calls admitted in one behaviour
MaxRequests == 3

\* ---- program constants --------------------------------------------------
PEER_NAMES == {1, 2, 3, 4}
\* float('inf'), the request_timestamp of a peer with no outstanding request
INF == 1000

VARIABLES
    state,              \* Peer.state
    clock,              \* Peer.clock
    request_timestamp,  \* Peer.request_timestamp
    reply_count,        \* Peer.reply_count
    deferred_requests,  \* Peer.deferred_requests: sequence of <<timestamp, name>>
    active_peers,       \* Peer.active_peers
    releasing_access,   \* Peer.releasing_access
    pc,                 \* position of the peer's _wait_and_enter_thread
    crashed,            \* set of peers whose process has died
    requests,           \* REQUEST calls in flight (_send_request_thread)
    replies,            \* REPLY calls in flight (_send_reply_thread)
    recv_max,           \* history: largest timestamp received in a REQUEST, -1 if none
    sent_max,           \* history: largest request timestamp sent, -1 if none
    nreq,               \* number of admitted request_access calls
    replied,            \* history: senders of the REPLYs counted in reply_count
    call                \* the operator's request_access call: "none", "blocked", "refused"

vars == <<state, clock, request_timestamp, reply_count, deferred_requests,
          active_peers, releasing_access, pc, crashed, requests, replies,
          recv_max, sent_max, nreq, replied, call>>

\* ---- helpers -------------------------------------------------------------
Max(a, b) == IF a >= b THEN a ELSE b

\* Python's tuple comparison (t1, n1) < (t2, n2)
PriorityLess(t1, n1, t2, n2) == t1 < t2 \/ (t1 = t2 /\ n1 < n2)

\* list.sort() on a list of (timestamp, name) tuples: insertion into a sorted list
RECURSIVE SortedInsert(_, _)
SortedInsert(seq, e) ==
    IF seq = <<>> THEN <<e>>
    ELSE IF PriorityLess(e[1], e[2], seq[1][1], seq[1][2]) THEN <<e>> \o seq
    ELSE <<seq[1]>> \o SortedInsert(Tail(seq), e)

RECURSIVE ListSort(_)
ListSort(seq) ==
    IF seq = <<>> THEN <<>>
    ELSE SortedInsert(ListSort(Tail(seq)), seq[1])

\* The engine lock (an RLock).  _wait_and_enter_thread calls
\* _enter_critical_section inside its "with self_peer.lock" block, so the waiter
\* holds the lock from its final check until _exit_critical_section returns.
\* Every other locked section is one atomic step of the model.
LockFree(p) == pc[p] \notin {"enter", "held"}

\* mutant of UpdateClock: the clock is merged but not ticked
UpdateClockNoTick(c, received_clock) == Max(c, received_clock)

\* _update_clock
UpdateClock(c, received_clock) ==
    Max(c, received_clock) + 1

\* mutant of RemoveFailedPeer: the credit is given in every state
RemoveFailedPeerAlwaysCredits(p, peer_name) ==
    IF LockFree(p) /\ peer_name \in active_peers[p]
    THEN <<active_peers[p] \ {peer_name}, reply_count[p] + 1>>
    ELSE <<active_peers[p], reply_count[p]>>

\* _remove_failed_peer(peer_name) on peer p: the new <<active_peers, reply_count>>
\* of p.  lock.acquire(timeout=0.1) fails while the waiter holds the lock.
RemoveFailedPeer(p, peer_name) ==
    IF LockFree(p) /\ peer_name \in active_peers[p]
    THEN <<active_peers[p] \ {peer_name},
           IF state[p] = "WANTED" THEN reply_count[p] + 1 ELSE reply_count[p]>>
    ELSE <<active_peers[p], reply_count[p]>>

\* _send_reply(peer_name, permission) on peer p answering the request stamped ts:
\* the REPLY calls it puts in flight
SendReply(p, peer_name, permission, ts) ==
    IF peer_name \notin active_peers[p] THEN {}
    ELSE {[src |-> p, dst |-> peer_name, perm |-> permission, ts |-> ts]}

\* ---- initial state -------------------------------------------------------
\* Peer.__init__ for every peer of the universe the peers are started with
\* (all_peer_names is the universe without the peer itself).  The peers of
\* dead have died right after start-up; a name outside the universe belongs to
\* no peer.
Construct(universe, dead) ==
    /\ state = [p \in PEER_NAMES |-> "RELEASED"]
    /\ clock = [p \in PEER_NAMES |-> 0]
    /\ request_timestamp = [p \in PEER_NAMES |-> INF]
    /\ reply_count = [p \in PEER_NAMES |-> 0]
    /\ deferred_requests = [p \in PEER_NAMES |-> <<>>]
    /\ active_peers = [p \in PEER_NAMES |-> IF p \in universe THEN universe \ {p} ELSE {}]
    /\ releasing_access = [p \in PEER_NAMES |-> FALSE]
    /\ pc = [p \in PEER_NAMES |-> "idle"]
    /\ crashed = dead \cup (PEER_NAMES \ universe)
    /\ requests = {}
    /\ replies = {}
    /\ recv_max = [p \in PEER_NAMES |-> -1]
    /\ sent_max = [p \in PEER_NAMES |-> -1]
    /\ nreq = 0
    /\ replied = [p \in PEER_NAMES |-> {}]
    /\ call = [p \in PEER_NAMES |-> "none"]

\* PeerA, PeerB and PeerC are started; the process of PeerC is dead
Init == Construct({1, 2, 3}, {3})

\* ---- operations ----------------------------------------------------------

\* request_access in state RELEASED
RequestAccess(p) ==
    /\ p \notin crashed
    /\ LockFree(p)
    /\ state[p] = "RELEASED"
    /\ nreq < MaxRequests
    /\ nreq' = nreq + 1
    /\ call' = [call EXCEPT ![p] = "none"]
    /\ replied' = [replied EXCEPT ![p] = {}]
    /\ LET c == UpdateClock(clock[p], 0) IN
        /\ clock' = [clock EXCEPT ![p] = c]
        /\ request_timestamp' = [request_timestamp EXCEPT ![p] = c]
        /\ state' = [state EXCEPT ![p] = "WANTED"]
        /\ reply_count' = [reply_count EXCEPT ![p] = 1]
        /\ pc' = [pc EXCEPT ![p] = "wait"]
        /\ requests' = requests \cup
              {[src |-> p, dst |-> q, ts |-> c, open |-> TRUE] : q \in active_peers[p]}
        /\ sent_max' = [sent_max EXCEPT ![p] = IF active_peers[p] = {} THEN @ ELSE Max(@, c)]
    /\ UNCHANGED <<deferred_requests, active_peers, releasing_access, crashed,
                   replies, recv_max>>

\* request_access called by the operator when the state is not RELEASED: it
\* takes the lock, returns False and touches nothing
RequestAccessRefused(p) ==
    /\ p \notin crashed
    /\ LockFree(p)
    /\ state[p] # "RELEASED"
    /\ call[p] = "none"
    /\ call' = [call EXCEPT ![p] = "refused"]
    /\ UNCHANGED <<state, clock, request_timestamp, reply_count, deferred_requests,
                   active_peers, releasing_access, pc, crashed, requests, replies,
                   recv_max, sent_max, nreq, replied>>

\* request_access called by the operator while the waiter holds the engine
\* lock (from its final check to the end of the critical section): the calling
\* thread blocks in "with self.lock"; RequestAccess is the call going on once
\* the lock is free
RequestAccessBlocks(p) ==
    /\ p \notin crashed
    /\ ~LockFree(p)
    /\ call[p] # "blocked"
    /\ call' = [call EXCEPT ![p] = "blocked"]
    /\ UNCHANGED <<state, clock, request_timestamp, reply_count, deferred_requests,
                   active_peers, releasing_access, pc, crashed, requests, replies,
                   recv_max, sent_max, nreq, replied>>

\* handle_request(requester_name, requester_timestamp) served by peer m.dst
HandleRequest(m) ==
    LET p == m.dst
        reply_immediately ==
            IF state[p] = "HELD" THEN FALSE
            ELSE IF state[p] = "WANTED"
                 THEN PriorityLess(m.ts, m.src, request_timestamp[p], p)
                 ELSE TRUE
    IN
    /\ m \in requests
    /\ p \notin crashed
    /\ LockFree(p)
    /\ clock' = [clock EXCEPT ![p] = UpdateClock(clock[p], m.ts)]
    /\ recv_max' = [recv_max EXCEPT ![p] = Max(@, m.ts)]
    /\ requests' = requests \ {m}
    /\ IF reply_immediately
       THEN /\ replies' = replies \cup SendReply(p, m.src, TRUE, m.ts)
            /\ UNCHANGED deferred_requests
       ELSE /\ replies' = replies \cup SendReply(p, m.src, FALSE, m.ts)
            /\ deferred_requests' = [deferred_requests EXCEPT ![p] =
                    ListSort(Append(@, <<m.ts, m.src>>))]
    /\ UNCHANGED <<state, request_timestamp, reply_count, active_peers,
                   releasing_access, pc, crashed, sent_max, nreq, replied, call>>

\* mutant of ReceiveReply: the handler itself takes the critical section when
\* the REPLY completes the quorum
ReceiveReplyEnters(r) ==
    LET p == r.dst
        counted == state[p] = "WANTED" /\ r.perm = TRUE
        full == counted /\ reply_count[p] + 1 >= Cardinality(active_peers[p]) + 1
    IN
    /\ r \in replies
    /\ p \notin crashed
    /\ LockFree(p)
    /\ replies' = replies \ {r}
    /\ reply_count' = [reply_count EXCEPT ![p] = IF counted THEN @ + 1 ELSE @]
    /\ state' = [state EXCEPT ![p] = IF full THEN "HELD" ELSE @]
    /\ replied' = [replied EXCEPT ![p] =
            IF state[p] = "WANTED" /\ r.perm = TRUE THEN @ \cup {r.src} ELSE @]
    /\ UNCHANGED <<clock, request_timestamp, deferred_requests, active_peers,
                   releasing_access, pc, crashed, requests, recv_max, sent_max, nreq, call>>

\* mutant of ReceiveReply: the permission argument is ignored
ReceiveReplyCountsAny(r) ==
    LET p == r.dst IN
    /\ r \in replies
    /\ p \notin crashed
    /\ LockFree(p)
    /\ replies' = replies \ {r}
    /\ reply_count' = [reply_count EXCEPT ![p] = IF state[p] = "WANTED" THEN @ + 1 ELSE @]
    /\ replied' = [replied EXCEPT ![p] = IF state[p] = "WANTED" THEN @ \cup {r.src} ELSE @]
    /\ UNCHANGED <<state, clock, request_timestamp, deferred_requests, active_peers,
                   releasing_access, pc, crashed, requests, recv_max, sent_max, nreq, call>>

\* receive_reply(sender_name, permission) served by peer r.dst
ReceiveReply(r) ==
    LET p == r.dst IN
    /\ r \in replies
    /\ p \notin crashed
    /\ LockFree(p)
    /\ replies' = replies \ {r}
    /\ reply_count' = [reply_count EXCEPT ![p] =
            IF state[p] = "WANTED" /\ r.perm = TRUE THEN @ + 1 ELSE @]
    /\ replied' = [replied EXCEPT ![p] =
            IF state[p] = "WANTED" /\ r.perm = TRUE THEN @ \cup {r.src} ELSE @]
    /\ UNCHANGED <<state, clock, request_timestamp, deferred_requests, active_peers,
                   releasing_access, pc, crashed, requests, recv_max, sent_max, nreq, call>>

\* _wait_and_enter_thread, one tick of the polling loop that finds the quorum
WaiterPoll(p) ==
    /\ p \notin crashed
    /\ pc[p] = "wait"
    /\ reply_count[p] >= Cardinality(active_peers[p]) + 1
    /\ pc' = [pc EXCEPT ![p] = "check"]
    /\ UNCHANGED <<state, clock, request_timestamp, reply_count, deferred_requests,
                   active_peers, releasing_access, crashed, requests, replies,
                   recv_max, sent_max, nreq, replied, call>>

\* _wait_and_enter_thread, the check after the loop: the waiter takes the lock,
\* re-reads the quorum and either goes on to _enter_critical_section (keeping
\* the lock) or aborts the request
WaiterCheck(p) ==
    /\ p \notin crashed
    /\ pc[p] = "check"
    /\ IF reply_count[p] >= Cardinality(active_peers[p]) + 1 /\ state[p] = "WANTED"
       THEN /\ pc' = [pc EXCEPT ![p] = "enter"]
            /\ UNCHANGED <<state, request_timestamp, reply_count>>
       ELSE /\ pc' = [pc EXCEPT ![p] = "idle"]
            /\ IF state[p] = "WANTED"
               THEN /\ state' = [state EXCEPT ![p] = "RELEASED"]
                    /\ request_timestamp' = [request_timestamp EXCEPT ![p] = INF]
                    /\ reply_count' = [reply_count EXCEPT ![p] = 0]
               ELSE UNCHANGED <<state, request_timestamp, reply_count>>
    /\ replied' = [replied EXCEPT ![p] = IF pc'[p] = "idle" THEN {} ELSE @]
    /\ UNCHANGED <<clock, deferred_requests, active_peers, releasing_access, crashed,
                   requests, replies, recv_max, sent_max, nreq, call>>

\* _enter_critical_section, the locked block that takes the critical section
EnterCriticalSection(p) ==
    /\ p \notin crashed
    /\ pc[p] = "enter"
    /\ state' = [state EXCEPT ![p] = "HELD"]
    /\ reply_count' = [reply_count EXCEPT ![p] = 0]
    /\ releasing_access' = [releasing_access EXCEPT ![p] = FALSE]
    /\ pc' = [pc EXCEPT ![p] = "held"]
    /\ replied' = [replied EXCEPT ![p] = {}]
    /\ UNCHANGED <<clock, request_timestamp, deferred_requests, active_peers, crashed,
                   requests, replies, recv_max, sent_max, nreq, call>>

\* release_access in state HELD
ReleaseAccess(p) ==
    /\ p \notin crashed
    /\ state[p] = "HELD"
    /\ releasing_access[p] = FALSE
    /\ releasing_access' = [releasing_access EXCEPT ![p] = TRUE]
    /\ UNCHANGED <<state, clock, request_timestamp, reply_count, deferred_requests,
                   active_peers, pc, crashed, requests, replies, recv_max,
                   sent_max, nreq, replied, call>>

\* the REPLY calls _exit_critical_section puts in flight for a deferred list
RECURSIVE DeferredReplies(_, _)
DeferredReplies(p, deferred_list) ==
    IF deferred_list = <<>> THEN {}
    ELSE SendReply(p, deferred_list[1][2], TRUE, deferred_list[1][1])
            \cup DeferredReplies(p, Tail(deferred_list))

\* mutant of ExitCriticalSection: request_timestamp is not reset
ExitCriticalSectionKeepsTimestamp(p) ==
    /\ p \notin crashed
    /\ pc[p] = "held"
    /\ releasing_access' = [releasing_access EXCEPT ![p] = FALSE]
    /\ state' = [state EXCEPT ![p] = "RELEASED"]
    /\ deferred_requests' = [deferred_requests EXCEPT ![p] = <<>>]
    /\ replies' = replies \cup DeferredReplies(p, deferred_requests[p])
    /\ pc' = [pc EXCEPT ![p] = "idle"]
    /\ UNCHANGED <<clock, request_timestamp, reply_count, active_peers, crashed,
                   requests, recv_max, sent_max, nreq, replied, call>>

\* the hold loop of _enter_critical_section ends (manual release or duration
\* expired) and _exit_critical_section runs; the waiter then drops the lock
ExitCriticalSection(p) ==
    /\ p \notin crashed
    /\ pc[p] = "held"
    /\ releasing_access' = [releasing_access EXCEPT ![p] = FALSE]
    /\ state' = [state EXCEPT ![p] = "RELEASED"]
    /\ request_timestamp' = [request_timestamp EXCEPT ![p] = INF]
    /\ deferred_requests' = [deferred_requests EXCEPT ![p] = <<>>]
    /\ replies' = replies \cup DeferredReplies(p, deferred_requests[p])
    /\ pc' = [pc EXCEPT ![p] = "idle"]
    /\ UNCHANGED <<clock, reply_count, active_peers, crashed, requests, recv_max, sent_max, nreq, replied, call>>

\* heartbeat(peer_name) served by peer p; it takes no lock
Heartbeat(p, peer_name) ==
    /\ p \notin crashed
    /\ peer_name \notin crashed
    /\ peer_name # p
    /\ peer_name \notin active_peers[p]
    /\ active_peers' = [active_peers EXCEPT ![p] = @ \cup {peer_name}]
    /\ UNCHANGED <<state, clock, request_timestamp, reply_count, deferred_requests,
                   releasing_access, pc, crashed, requests, replies, recv_max, sent_max, nreq, replied, call>>

\* _failure_detector of peer p finds the crashed peer_name silent for more than
\* TIMEOUT_HEARTBEAT and removes it
FailureDetector(p, peer_name) ==
    /\ p \notin crashed
    /\ LockFree(p)
    /\ peer_name \in active_peers[p]
    /\ peer_name \in crashed
    /\ active_peers' = [active_peers EXCEPT ![p] = RemoveFailedPeer(p, peer_name)[1]]
    /\ reply_count' = [reply_count EXCEPT ![p] = RemoveFailedPeer(p, peer_name)[2]]
    /\ UNCHANGED <<state, clock, request_timestamp, deferred_requests,
                   releasing_access, pc, crashed, requests, replies, recv_max, sent_max, nreq, replied, call>>

\* _send_request_thread fails to reach the target and removes it: the target
\* has crashed (no proxy or a CommunicationError; the call is lost), or the
\* call runs into COMMTIMEOUT (a TimeoutError) because the target's handler
\* waits for the engine lock, which the target's waiter keeps for the whole
\* critical section (duration may exceed COMMTIMEOUT; the call stays queued at
\* the target)
RequestFails(m) ==
    /\ m \in requests
    /\ m.open
    /\ m.src \notin crashed
    /\ m.dst \in crashed \/ pc[m.dst] = "held"
    /\ requests' = IF m.dst \in crashed THEN requests \ {m}
                   ELSE (requests \ {m}) \cup {[m EXCEPT !.open = FALSE]}
    /\ active_peers' = [active_peers EXCEPT ![m.src] = RemoveFailedPeer(m.src, m.dst)[1]]
    /\ reply_count' = [reply_count EXCEPT ![m.src] = RemoveFailedPeer(m.src, m.dst)[2]]
    /\ UNCHANGED <<state, clock, request_timestamp, deferred_requests,
                   releasing_access, pc, crashed, replies, recv_max, sent_max, nreq, replied, call>>

Next ==
    \/ \E p \in PEER_NAMES : RequestAccess(p)
    \/ \E m \in requests : HandleRequest(m)
    \/ \E r \in replies : ReceiveReply(r)
    \/ \E p \in PEER_NAMES : WaiterPoll(p)
    \/ \E p \in PEER_NAMES : WaiterCheck(p)
    \/ \E p \in PEER_NAMES : EnterCriticalSection(p)
    \/ \E p \in PEER_NAMES : ReleaseAccess(p)
    \/ \E p \in PEER_NAMES : ExitCriticalSection(p)
    \/ \E p, q \in PEER_NAMES : Heartbeat(p, q)
    \/ \E p, q \in PEER_NAMES : FailureDetector(p, q)
    \/ \E m \in requests : RequestFails(m)

Spec == Init /\ [][Next]_vars

\* ---- specifications with the scheduling the threads get --------------------

\* What the scheduler and the transport guarantee to peer p: every RPC that
\* can be served is served, the waiter thread and the hold loop (duration is
\* finite) keep running, heartbeats keep arriving, a crashed peer is found
\* silent, a call to a crashed peer fails.  The operator's request_access and
\* release_access and RPC timeouts are not guaranteed to happen.
Fairness(p) ==
    /\ WF_vars(\E m \in requests : m.dst = p /\ HandleRequest(m))
    /\ WF_vars(\E r \in replies : r.dst = p /\ ReceiveReply(r))
    /\ WF_vars(\E m \in requests : m.src = p /\ m.dst \in crashed /\ RequestFails(m))
    /\ WF_vars(WaiterPoll(p))
    /\ WF_vars(WaiterCheck(p))
    /\ WF_vars(EnterCriticalSection(p))
    /\ WF_vars(ExitCriticalSection(p))
    /\ \A q \in PEER_NAMES : WF_vars(Heartbeat(p, q))

\* PeerA and PeerB are started with each other as the whole universe; no peer
\* crashes
LiveInit == Construct({1, 2}, {})

LiveNext ==
    \/ \E p \in PEER_NAMES : RequestAccess(p)
    \/ \E m \in requests : HandleRequest(m)
    \/ \E r \in replies : ReceiveReply(r)
    \/ \E p \in PEER_NAMES : WaiterPoll(p)
    \/ \E p \in PEER_NAMES : WaiterCheck(p)
    \/ \E p \in PEER_NAMES : EnterCriticalSection(p)
    \/ \E p \in PEER_NAMES : ReleaseAccess(p)
    \/ \E p \in PEER_NAMES : ExitCriticalSection(p)
    \/ \E p, q \in PEER_NAMES : Heartbeat(p, q)
    \/ \E m \in requests : RequestFails(m)

LiveSpec == LiveInit /\ [][LiveNext]_vars /\ \A p \in PEER_NAMES : Fairness(p)

\* PeerA and PeerB with an operator who also calls request_access when the
\* peer is not RELEASED
CallNext ==
    \/ LiveNext
    \/ \E p \in PEER_NAMES : RequestAccessRefused(p)
    \/ \E p \in PEER_NAMES : RequestAccessBlocks(p)

CallSpec == LiveInit /\ [][CallNext]_vars

\* the peers of Init under the scheduling the threads get
FairSpec ==
    /\ Init /\ [][Next]_vars
    /\ \A p \in PEER_NAMES : Fairness(p)
    /\ \A p, q \in PEER_NAMES : WF_vars(FailureDetector(p, q))

\* ---- claims --------------------------------------------------------------

\* C1: mutual exclusion: no two distinct non-crashed peers are HELD in the
\* same state.
MutualExclusion ==
    \A p, q \in PEER_NAMES \ crashed :
        p # q => ~(state[p] = "HELD" /\ state[q] = "HELD")

\* C4: quorum arithmetic: every step that takes a peer from WANTED to HELD is
\* taken with reply_count >= |active_peers| + 1 on the active_peers of that step.
QuorumAtEntry ==
    [][\A p \in PEER_NAMES :
          (state[p] = "WANTED" /\ state'[p] = "HELD")
              => reply_count[p] >= Cardinality(active_peers[p]) + 1]_vars

\* C5: removal credit: a step that removes a peer from active_peers removes
\* exactly one peer and adds exactly 1 to reply_count when the local state is
\* WANTED and nothing otherwise; a removal attempt for a peer that is not in
\* active_peers changes neither.
RemovalCredit ==
    [][
        /\ \A p \in PEER_NAMES :
            (active_peers'[p] # active_peers[p] /\ active_peers'[p] \subseteq active_peers[p])
                => /\ Cardinality(active_peers[p] \ active_peers'[p]) = 1
                   /\ reply_count'[p] = IF state[p] = "WANTED" THEN reply_count[p] + 1
                                        ELSE reply_count[p]
        /\ \A m \in requests :
            (RequestFails(m) /\ m.dst \notin active_peers[m.src])
                => (reply_count' = reply_count /\ active_peers' = active_peers)]_vars

\* C5 witness: PeerA is WANTED on the first request of the run, PeerB has not
\* served its REQUEST yet, PeerC has been removed and credited.
RemovalCreditWitness ==
    /\ nreq = 1
    /\ state[1] = "WANTED"
    /\ active_peers[1] = {2}
    /\ reply_count[1] = 2
    /\ \E m \in requests : m.src = 1 /\ m.dst = 2

\* C6: in every reachable state 0 <= reply_count <= |active_peers| + 1.
ReplyCountBound ==
    \A p \in PEER_NAMES :
        0 <= reply_count[p] /\ reply_count[p] <= Cardinality(active_peers[p]) + 1

\* C7: in every reachable state deferred_requests is sorted ascending by
\* (timestamp, name) and holds no two entries of the same requester.
DeferredSortedNoDuplicates ==
    \A p \in PEER_NAMES :
        \A i, j \in 1..Len(deferred_requests[p]) :
            i < j => /\ ~PriorityLess(deferred_requests[p][j][1], deferred_requests[p][j][2],
                                      deferred_requests[p][i][1], deferred_requests[p][i][2])
                     /\ deferred_requests[p][i][2] # deferred_requests[p][j][2]

\* C8: Lamport monotonicity as claimed: clock never decreases, and it is
\* strictly greater than every timestamp received in a REQUEST and than every
\* request timestamp sent.
ClockAboveReceivedAndSent ==
    [][\A p \in PEER_NAMES :
          /\ clock'[p] >= clock[p]
          /\ clock'[p] > recv_max'[p]
          /\ clock'[p] > sent_max'[p]]_vars

\* C8 as amended: clock never decreases, it is strictly greater than every
\* timestamp received in a REQUEST, and at least every request timestamp sent
\* (request_access stamps the REQUEST with the clock itself).
ClockAboveReceivedAtLeastSent ==
    [][\A p \in PEER_NAMES :
          /\ clock'[p] >= clock[p]
          /\ clock'[p] > recv_max'[p]
          /\ clock'[p] >= sent_max'[p]]_vars

\* C8 witness: a peer that has received a REQUEST and then sent its own, the
\* clock equal to the timestamp it sent.
ClockWitness ==
    \E p \in PEER_NAMES :
        recv_max[p] > 0 /\ sent_max[p] > recv_max[p] /\ clock[p] = sent_max[p]

\* C9: in every reachable state, state = WANTED iff request_timestamp is finite.
WantedIffTimestampFinite ==
    \A p \in PEER_NAMES : (state[p] = "WANTED") <=> (request_timestamp[p] < INF)

\* C9 as amended: request_timestamp is +infinity exactly when the state is
\* RELEASED; it keeps the request's value while WANTED and while HELD.
ReleasedIffTimestampInfinite ==
    \A p \in PEER_NAMES : (state[p] = "RELEASED") <=> (request_timestamp[p] = INF)

\* C9 witness: a HELD peer with a finite request_timestamp, and a peer back in
\* RELEASED after a request.
TimestampWitness ==
    /\ \E p \in PEER_NAMES : state[p] = "HELD" /\ request_timestamp[p] < INF
    /\ \E p \in PEER_NAMES : state[p] = "RELEASED" /\ sent_max[p] > 0

\* C10: the only state changes are RELEASED->WANTED by request_access,
\* WANTED->HELD on quorum, WANTED->RELEASED by the waiter's abort and
\* HELD->RELEASED on exit; handle_request, receive_reply, heartbeat and
\* _remove_failed_peer never change state.
OnlyFourTransitions ==
    [][
        /\ \A p \in PEER_NAMES :
            (state'[p] # state[p]) =>
                (\/ state[p] = "RELEASED" /\ state'[p] = "WANTED" /\ RequestAccess(p)
                 \/ state[p] = "WANTED" /\ state'[p] = "HELD" /\ EnterCriticalSection(p)
                 \/ state[p] = "WANTED" /\ state'[p] = "RELEASED" /\ WaiterCheck(p)
                 \/ state[p] = "HELD" /\ state'[p] = "RELEASED" /\ ExitCriticalSection(p))
        /\ ((\/ \E m \in requests : HandleRequest(m) \/ RequestFails(m)
             \/ \E r \in replies : ReceiveReply(r)
             \/ \E a, b \in PEER_NAMES : Heartbeat(a, b) \/ FailureDetector(a, b))
                => state' = state)]_vars

\* C10 witness: one peer is HELD while another is back in RELEASED after a
\* request of its own.
TransitionsWitness ==
    \E p, q \in PEER_NAMES :
        /\ state[p] = "HELD"
        /\ state[q] = "RELEASED" /\ sent_max[q] > 0 /\ reply_count[q] = 0
        /\ nreq = 2

\* C2: progress: with no crash and every message delivered, whenever some peer
\* is WANTED, eventually some peer is HELD.
Progress ==
    (\E p \in PEER_NAMES \ crashed : state[p] = "WANTED")
        ~> (\E p \in PEER_NAMES \ crashed : state[p] = "HELD")

\* C3: PeerA, WANTED with the REPLY of every live peer of its active_peers
\* counted and with a crashed peer still in its active_peers, eventually is HELD.
CrashedPeerCredited ==
    (/\ state[1] = "WANTED"
     /\ \E c \in active_peers[1] : c \in crashed
     /\ \A q \in active_peers[1] \ crashed : q \in replied[1])
        ~> (state[1] = "HELD")

\* C11: request_access called while the state is WANTED or HELD returns false
\* and has no effect: the step that ends such a call leaves clock,
\* request_timestamp, state, reply_count, deferred_requests and active_peers of
\* the peer unchanged, sends no REQUEST and starts no waiter.
RejectedRequestHasNoEffect ==
    [][\A p \in PEER_NAMES :
          (\/ call[p] = "blocked" /\ call'[p] # "blocked"
           \/ call[p] = "none" /\ call'[p] = "refused")
              => /\ state'[p] = state[p]
                 /\ clock'[p] = clock[p]
                 /\ request_timestamp'[p] = request_timestamp[p]
                 /\ reply_count'[p] = reply_count[p]
                 /\ deferred_requests'[p] = deferred_requests[p]
                 /\ active_peers'[p] = active_peers[p]
                 /\ requests' = requests
                 /\ pc'[p] = pc[p]]_vars

\* C12: a step that serves a REPLY (receive_reply) adds exactly 1 to the
\* reply_count of the receiver when its state is WANTED and the permission is
\* true, and leaves reply_count unchanged otherwise; it changes no other
\* variable of any peer.
ReceiveReplyFrame ==
    [][\A r \in replies :
          (r \notin replies')
              => /\ reply_count' = [reply_count EXCEPT ![r.dst] =
                        IF state[r.dst] = "WANTED" /\ r.perm THEN @ + 1 ELSE @]
                 /\ state' = state
                 /\ clock' = clock
                 /\ request_timestamp' = request_timestamp
                 /\ deferred_requests' = deferred_requests
                 /\ active_peers' = active_peers
                 /\ releasing_access' = releasing_access]_vars

\* C12 witness: PeerA and PeerB requested with timestamp 1; PeerA counted the
\* REPLY of PeerB, and PeerB, deferred by PeerA, has served PeerA's REPLY with
\* permission false without counting it.
ReceiveReplyWitness ==
    /\ nreq = 2
    /\ state[1] = "WANTED" /\ state[2] = "WANTED"
    /\ replied[1] = {2} /\ reply_count[1] = 2
    /\ deferred_requests[1] = <<<<1, 2>>>>
    /\ active_peers[1] = {2, 3} /\ active_peers[2] = {1, 3}
    /\ reply_count[2] = 1
    /\ \A r \in replies : r.dst # 2

\* C13: a WANTED peer that serves handle_request(r, T) dispatches REPLY true
\* iff (T, r) < (request_timestamp, name) and defers otherwise; and two WANTED
\* peers never have each other's outstanding REQUEST deferred.
WantedGrantsIffRequesterWins ==
    [][
        /\ \A m \in requests :
            (HandleRequest(m) /\ state[m.dst] = "WANTED")
                => /\ ([src |-> m.dst, dst |-> m.src, perm |-> TRUE, ts |-> m.ts] \in replies')
                        <=> PriorityLess(m.ts, m.src, request_timestamp[m.dst], m.dst)
                   /\ (deferred_requests'[m.dst] # deferred_requests[m.dst])
                        <=> ~PriorityLess(m.ts, m.src, request_timestamp[m.dst], m.dst)
        /\ \A a, b \in PEER_NAMES :
            (a # b /\ state'[a] = "WANTED" /\ state'[b] = "WANTED")
                => ~(/\ \E i \in 1..Len(deferred_requests'[a]) :
                            deferred_requests'[a][i] = <<request_timestamp'[b], b>>
                     /\ \E i \in 1..Len(deferred_requests'[b]) :
                            deferred_requests'[b][i] = <<request_timestamp'[a], a>>)]_vars

\* C14: a RELEASED peer that serves handle_request(r, T) dispatches REPLY true
\* to r and does not defer r, whether or not r is in its active_peers.
ReleasedRepliesImmediately ==
    [][\A m \in requests :
          (HandleRequest(m) /\ state[m.dst] = "RELEASED")
              => /\ [src |-> m.dst, dst |-> m.src, perm |-> TRUE, ts |-> m.ts] \in replies'
                 /\ deferred_requests' = deferred_requests]_vars

\* C15: a REQUEST that has reached a HELD peer is served while the peer is
\* HELD: handle_request does not wait for the critical section to end, so in
\* every state with a REQUEST addressed to a live HELD peer the handler can run.
RequestAtHeldPeerIsServed ==
    \A m \in requests :
        (m.dst \notin crashed /\ state[m.dst] = "HELD") => ENABLED HandleRequest(m)

\* C16: the step that completes _exit_critical_section leaves the peer
\* RELEASED with request_timestamp +infinity and an empty deferred_requests,
\* and dispatches exactly one REPLY true to each requester that was deferred.
ExitRepliesToEveryDeferred ==
    [][\A p \in PEER_NAMES :
          (pc[p] = "held" /\ pc'[p] # "held")
              => /\ state'[p] = "RELEASED"
                 /\ request_timestamp'[p] = INF
                 /\ deferred_requests'[p] = <<>>
                 /\ \A i \in 1..Len(deferred_requests[p]) :
                        Cardinality({r \in replies' \ replies :
                                        /\ r.src = p
                                        /\ r.dst = deferred_requests[p][i][2]
                                        /\ r.perm}) = 1]_vars

\* C17: every local event of a peer (request_access, handle_request,
\* receive_reply, entering and exiting the critical section) leaves its clock
\* strictly greater than before.
EveryEventTicksClock ==
    [][\A p \in PEER_NAMES :
          (\/ RequestAccess(p)
           \/ \E m \in requests : m.dst = p /\ HandleRequest(m)
           \/ \E r \in replies : r.dst = p /\ ReceiveReply(r)
           \/ EnterCriticalSection(p)
           \/ ExitCriticalSection(p))
              => clock'[p] > clock[p]]_vars

\* C18: active_peers of a peer does not change while a thread of that peer
\* holds the engine lock: from the waiter's final check to the end of the
\* critical section no peer is added or removed.
LockGuardsActivePeers ==
    [][\A p \in PEER_NAMES :
          (~LockFree(p) /\ pc'[p] = pc[p]) => active_peers'[p] = active_peers[p]]_vars

\* C19: every REPLY that adds to reply_count answers the outstanding REQUEST
\* of the receiver: it carries the receiver's current request_timestamp.
CountedReplyAnswersCurrentRequest ==
    [][\A r \in replies :
          (r \notin replies' /\ reply_count'[r.dst] = reply_count[r.dst] + 1)
              => r.ts = request_timestamp[r.dst]]_vars

\* C20: in every reachable state a RELEASED peer has an empty deferred_requests.
ReleasedHasNoDeferred ==
    \A p \in PEER_NAMES : state[p] = "RELEASED" => deferred_requests[p] = <<>>

====
